---- MODULE Spec2Model ----
(***************************************************************************)
(* The template store of api-server/app.py: a JSON array kept in one file, *)
(* read and rewritten whole by every handler under one process-wide lock,  *)
(* saved by writing a sibling temporary file and renaming it over the      *)
(* store path, and merged with the built-in MOCK_TEMPLATES for reads.      *)
(***************************************************************************)
EXTENDS Integers, Sequences, FiniteSets, TLC

\* ------------------------------------------------------------------ bounds
MaxCalls == 2       \* requests issued in one behaviour
NumIds == 2         \* identifiers uuid4 can hand out before Create is cut off
MaxTicks == 1       \* distinct later readings of the wall clock

\* The request threads of the one server process.
Threads == {1, 2}
NoThread == 0

\* ------------------------------------------------------------- data model
\* Names are sequences of characters so that lower() and "in" are computed.
SeedName1 == <<"S","a","l","e","s"," ","R","e","p","o","r","t"," ","T","e","m","p","l","a","t","e">>
SeedName2 == <<"E","m","p","l","o","y","e","e"," ","T","r","a","c","k","i","n","g">>
SeedName3 == <<"B","u","d","g","e","t"," ","P","l","a","n","n","i","n","g">>

\* Timestamps are instants on one integer axis. isoformat() of an aware UTC
\* datetime is fixed-width up to the optional fraction and '+' sorts below
\* '.', so comparing the strings agrees with comparing the instants. The
\* six seed instants are the 2025 dates of the source, in their order.
MOCK_TEMPLATES ==
  << [id |-> "tpl-001", name |-> SeedName1, category |-> "Sales",
      content |-> "sheet-sales", created_at |-> 3, updated_at |-> 6],
     [id |-> "tpl-002", name |-> SeedName2, category |-> "HR",
      content |-> "sheet-hr", created_at |-> 2, updated_at |-> 5],
     [id |-> "tpl-003", name |-> SeedName3, category |-> "Finance",
      content |-> "sheet-budget", created_at |-> 1, updated_at |-> 4] >>

\* The wall clock starts after the last seed date and never runs backwards.
ClockStart == MOCK_TEMPLATES[1].updated_at + 1
ClockEnd == ClockStart + MaxTicks

\* uuid4 strings; none has the form of a seed id.
Uuid(i) == IF i = 1 THEN "u1" ELSE IF i = 2 THEN "u2" ELSE IF i = 3 THEN "u3" ELSE "u4"
Uuids == {Uuid(i) : i \in 1..NumIds}

\* Request bodies (TemplateCreate): a pair, a pair that differs from it only
\* in the case of the name, and a pair that differs only in the category.
Payloads ==
  { [name |-> <<"a">>, category |-> "x", content |-> "c1"],
    [name |-> <<"A">>, category |-> "x", content |-> "c2"],
    [name |-> <<"a">>, category |-> "Sales", content |-> "c3"] }
NoPayload == [name |-> <<>>, category |-> "", content |-> ""]

\* Python's None, the default of an absent query parameter: a value that is
\* none of the category strings of the model.
None == "None"

\* Query parameters of List: no parameter at all, and both filters. An
\* absent q is written <<>> like the empty one: the handler tests q for
\* truth, and every name contains the empty string.
ListFilters ==
  { [cat |-> None, q |-> <<>>],
    [cat |-> "Sales", q |-> <<"A">>] }

\* --------------------------------------------------------------- results
\* HTTP statuses: 200 of a returned value, 404 and 409 of the HTTPExceptions,
\* 500 of an exception the handler does not catch (a failed save).
Ok == "200"
NotFound == "404"
Conflict == "409"
StorageError == "500"

Response(st, recs, del) == [status |-> st, body |-> recs, deleted |-> del]
NoResponse == Response("", <<>>, "")

\* --------------------------------------------------------- pure helpers
\* str.lower() on the characters the model uses.
LowerChar(c) ==
  CASE c = "A" -> "a" [] c = "B" -> "b" [] c = "E" -> "e" [] c = "P" -> "p"
    [] c = "R" -> "r" [] c = "S" -> "s" [] c = "T" -> "t" [] OTHER -> c

lower(s) == [i \in 1..Len(s) |-> LowerChar(s[i])]

\* Python's "sub in s" on strings.
Contains(sub, s) ==
  \E k \in 0..(Len(s) - Len(sub)) : \A i \in 1..Len(sub) : s[k + i] = sub[i]

\* What the file at STORE_PATH, or at STORE_PATH + ".tmp", holds.
Absent == [kind |-> "absent", items |-> <<>>]
Invalid == [kind |-> "invalid", items |-> <<>>]      \* not parseable: garbage or a cut-off dump
NonArray == [kind |-> "nonarray", items |-> <<>>]    \* valid JSON, not a list
Array(recs) == [kind |-> "array", items |-> recs]
\* Bytes that are not UTF-8 text, such as a dump cut inside a multi-byte
\* character: open(..., encoding="utf-8") makes the read inside json.load
\* raise UnicodeDecodeError, which is not a json.JSONDecodeError.
Undecodable == [kind |-> "undecodable", items |-> <<>>]

\* load_store returns a list (True) or lets the exception of the read out.
Readable(f) == f.kind # "undecodable"

load_store(f) == IF f.kind = "array" THEN f.items ELSE <<>>

\* A lookup that falls back to the first record when no id matches.
find_by_idOrFirst(recs, template_id) ==
  IF \E i \in 1..Len(recs) : recs[i].id = template_id
  THEN CHOOSE i \in 1..Len(recs) : recs[i].id = template_id
  ELSE IF recs = <<>> THEN 0 ELSE 1

\* find_by_id: the index of the first record with that id, 0 for None.
find_by_id(recs, template_id) ==
  IF \E i \in 1..Len(recs) : recs[i].id = template_id
  THEN CHOOSE i \in 1..Len(recs) :
         /\ recs[i].id = template_id
         /\ \A j \in 1..(i - 1) : recs[j].id # template_id
  ELSE 0

\* A duplicate check that walks MOCK_TEMPLATES instead of the loaded list.
HasPairSeeds(recs, payload) ==
  \E i \in 1..Len(MOCK_TEMPLATES) :
     /\ MOCK_TEMPLATES[i].name = payload.name
     /\ MOCK_TEMPLATES[i].category = payload.category

\* A duplicate check over the seeds followed by the loaded list.
HasPairOrSeed(recs, payload) ==
  \E r \in {(MOCK_TEMPLATES \o recs)[i] : i \in 1..(Len(MOCK_TEMPLATES) + Len(recs))} :
     r.name = payload.name /\ r.category = payload.category

HasPair(recs, payload) ==
  \E i \in 1..Len(recs) :
     recs[i].name = payload.name /\ recs[i].category = payload.category

\* An insertion that puts a record before the ones with an equal key.
RECURSIVE InsertDescBeforeEqual(_, _)
InsertDescBeforeEqual(sorted, r) ==
  IF sorted = <<>> THEN <<r>>
  ELSE IF Head(sorted).updated_at > r.updated_at
       THEN <<Head(sorted)>> \o InsertDescBeforeEqual(Tail(sorted), r)
       ELSE <<r>> \o sorted

\* list.sort(key=updated_at, reverse=True): stable, descending. Inserting
\* each record after the ones that are not older keeps equal keys in order.
RECURSIVE InsertDesc(_, _)
InsertDesc(sorted, r) ==
  IF sorted = <<>> THEN <<r>>
  ELSE IF Head(sorted).updated_at >= r.updated_at
       THEN <<Head(sorted)>> \o InsertDesc(Tail(sorted), r)
       ELSE <<r>> \o sorted

RECURSIVE SortDesc(_)
SortDesc(recs) ==
  IF recs = <<>> THEN <<>>
  ELSE InsertDesc(SortDesc(SubSeq(recs, 1, Len(recs) - 1)), recs[Len(recs)])

\* ------------------------------------------------------ handler bodies
NoRec == [id |-> "", name |-> <<>>, category |-> "", content |-> "",
          created_at |-> 0, updated_at |-> 0]

\* A record whose two timestamps come from two readings of the clock.
NewRecordTwoReads(payload, tid, ts) ==
  [id |-> tid, name |-> payload.name, category |-> payload.category,
   content |-> payload.content, created_at |-> ts, updated_at |-> ts + 1]

\* create_template: the record built from the payload, a new id and one
\* reading of the clock.
NewRecord(payload, tid, ts) ==
  [id |-> tid, name |-> payload.name, category |-> payload.category,
   content |-> payload.content, created_at |-> ts, updated_at |-> ts]

\* An update that stamps both timestamps.
OverwriteStampBoth(it, payload, ts) ==
  [it EXCEPT !.name = payload.name, !.category = payload.category,
             !.content = payload.content, !.created_at = ts, !.updated_at = ts]

\* An update that writes the reading of the clock into created_at.
OverwriteStampCreated(it, payload, ts) ==
  [it EXCEPT !.name = payload.name, !.category = payload.category,
             !.content = payload.content, !.created_at = ts]

\* update_template: the found record with the payload written over it.
Overwrite(it, payload, ts) ==
  [it EXCEPT !.name = payload.name, !.category = payload.category,
             !.content = payload.content, !.updated_at = ts]

\* A delete that cuts the list at the first record with the id.
WithoutFrom(recs, template_id) ==
  IF find_by_id(recs, template_id) = 0 THEN recs
  ELSE SubSeq(recs, 1, find_by_id(recs, template_id) - 1)

\* delete_template: the records whose id differs.
Without(recs, template_id) ==
  LET Keep(r) == r.id # template_id IN SelectSeq(recs, Keep)

\* list_templates after the load: seeds first, both filters, then the sort.
\* "if category:" and "if q:" skip the filter for None and for "".
ListResult(saved, category, q) ==
  LET all == MOCK_TEMPLATES \o saved
      InCat(r) == r.category = category
      byCat == IF category \notin {None, ""} THEN SelectSeq(all, InCat) ELSE all
      Match(r) == Contains(lower(q), lower(r.name))
      byName == IF q # <<>> THEN SelectSeq(byCat, Match) ELSE byCat
  IN SortDesc(byName)

\* A get_template whose scan runs over an empty catalogue.
SeedIndexSkipped(template_id) == find_by_id(<<>>, template_id)

\* get_template's scan of MOCK_TEMPLATES: index of the seed, 0 if none.
SeedIndex(template_id) == find_by_id(MOCK_TEMPLATES, template_id)

\* ---------------------------------------------------------------- calls
NoCall == [op |-> "", id |-> "", payload |-> NoPayload, cat |-> "", q |-> <<>>]

\* Path parameters: every id uuid4 can produce (issued or not) and a seed id.
TargetIds == Uuids \cup {"tpl-001"}

ListCalls == {[NoCall EXCEPT !.op = "list", !.cat = f.cat, !.q = f.q] : f \in ListFilters}
GetCalls == {[NoCall EXCEPT !.op = "get", !.id = i] : i \in TargetIds}
CreateCalls == {[NoCall EXCEPT !.op = "create", !.payload = p] : p \in Payloads}
UpdateCalls ==
  {[NoCall EXCEPT !.op = "update", !.id = i, !.payload = p] : i \in TargetIds, p \in Payloads}
DeleteCalls == {[NoCall EXCEPT !.op = "delete", !.id = i] : i \in TargetIds}
Calls == ListCalls \cup GetCalls \cup CreateCalls \cup UpdateCalls \cup DeleteCalls

\* One call run alone on the collection `store`: the new collection and the
\* response. tid and ts are the id and the clock reading the call draws.
Serial(store, c, tid, ts) ==
  CASE c.op = "list" ->
         [store |-> store, response |-> Response(Ok, ListResult(store, c.cat, c.q), "")]
    [] c.op = "get" ->
         IF SeedIndex(c.id) # 0
         THEN [store |-> store,
               response |-> Response(Ok, <<MOCK_TEMPLATES[SeedIndex(c.id)]>>, "")]
         ELSE IF find_by_id(store, c.id) # 0
         THEN [store |-> store,
               response |-> Response(Ok, <<store[find_by_id(store, c.id)]>>, "")]
         ELSE [store |-> store, response |-> Response(NotFound, <<>>, "")]
    [] c.op = "create" ->
         IF HasPair(store, c.payload)
         THEN [store |-> store, response |-> Response(Conflict, <<>>, "")]
         ELSE [store |-> Append(store, NewRecord(c.payload, tid, ts)),
               response |-> Response(Ok, <<NewRecord(c.payload, tid, ts)>>, "")]
    [] c.op = "update" ->
         LET i == find_by_id(store, c.id) IN
         IF i = 0
         THEN [store |-> store, response |-> Response(NotFound, <<>>, "")]
         ELSE [store |-> [store EXCEPT ![i] = Overwrite(store[i], c.payload, ts)],
               response |-> Response(Ok, <<Overwrite(store[i], c.payload, ts)>>, "")]
    [] OTHER ->
         IF Len(Without(store, c.id)) = Len(store)
         THEN [store |-> store, response |-> Response(NotFound, <<>>, "")]
         ELSE [store |-> Without(store, c.id), response |-> Response(Ok, <<>>, c.id)]

\* ---------------------------------------------------------------- state
VARIABLES
  file,     \* the file at STORE_PATH
  tmp,      \* the file at STORE_PATH + ".tmp"
  lock,     \* _lock: the thread holding it, NoThread when free
  clock,    \* the last reading of the wall clock
  issued,   \* the ids uuid4 has returned
  ncalls,   \* requests issued so far
  pc,       \* each thread's position in its handler
  call,     \* each thread's request
  items,    \* each thread's local list (saved / items)
  rec,      \* each thread's local record (record / it)
  result,   \* each thread's response
  abs,      \* history: the collection of the serial execution
  lin,      \* history: each call's response in the serial execution
  born,     \* history: the records committed by Create
  touched,  \* history: the ids committed by Update or Delete
  gone      \* history: the ids committed by Delete

vars == <<file, tmp, lock, clock, issued, ncalls, pc, call, items, rec, result,
          abs, lin, born, touched, gone>>

disk == <<file, tmp>>
history == <<abs, born, touched, gone>>

\* A record an earlier run of the server created and saved.
EarlierRecord == NewRecord([name |-> <<"a">>, category |-> "x", content |-> "c1"],
                           Uuid(1), ClockStart)

\* At start the store path holds nothing, or what load_store reads as no
\* data, or the array an earlier run saved.
InitialFiles == {Absent, Invalid, NonArray, Array(<<>>), Array(<<EarlierRecord>>)}

Init ==
  /\ file \in InitialFiles
  /\ tmp = Absent
  /\ lock = NoThread
  /\ clock = ClockStart
  /\ issued = {load_store(file)[i].id : i \in 1..Len(load_store(file))}
  /\ ncalls = 0
  /\ pc = [t \in Threads |-> "idle"]
  /\ call = [t \in Threads |-> NoCall]
  /\ items = [t \in Threads |-> <<>>]
  /\ rec = [t \in Threads |-> NoRec]
  /\ result = [t \in Threads |-> NoResponse]
  /\ abs = load_store(file)
  /\ lin = [t \in Threads |-> NoResponse]
  /\ born = {load_store(file)[i] : i \in 1..Len(load_store(file))}
  /\ touched = {}
  /\ gone = {}

\* An id source that only avoids the ids now in the file.
uuid4Recycled ==
  {Uuid(CHOOSE i \in 1..(NumIds + 1) :
          /\ \A k \in 1..Len(load_store(file)) : load_store(file)[k].id # Uuid(i)
          /\ \A j \in 1..(i - 1) :
                \E k \in 1..Len(load_store(file)) : load_store(file)[k].id = Uuid(j))}

\* uuid4(): an id never returned before. Ids are only compared for equality,
\* so the first unused one stands for any of them.
uuid4 == {Uuid(Cardinality(issued) + 1)}

\* now_iso(): a reading of the clock, not before the last one. Instants are
\* only compared, so one tick stands for any later reading.
now_iso == {ts \in {clock, clock + 1} : ts <= ClockEnd}

\* Creates that have not drawn their id yet.
Drawing == {t \in Threads : call[t].op = "create" /\ pc[t] \in {"lock", "load"}}

\* -------------------------------------------------------------- actions
\* The handler of thread t ends with response r; its locals die with it.
Finish(t, r) ==
  /\ pc' = [pc EXCEPT ![t] = "done"]
  /\ result' = [result EXCEPT ![t] = r]
  /\ items' = [items EXCEPT ![t] = <<>>]
  /\ rec' = [rec EXCEPT ![t] = NoRec]

\* A list_templates that reads the store without entering the with block.
InvokeListUnlocked(t, c) ==
  /\ pc[t] \in {"idle", "done"}
  /\ ncalls < MaxCalls
  /\ c.op = "create" => Cardinality(issued) + Cardinality(Drawing) < NumIds
  /\ ncalls' = ncalls + 1
  /\ call' = [call EXCEPT ![t] = c]
  /\ pc' = [pc EXCEPT ![t] = IF c.op = "get" THEN "scan"
                             ELSE IF c.op = "list" THEN "load" ELSE "lock"]
  /\ result' = [result EXCEPT ![t] = NoResponse]
  /\ lin' = [lin EXCEPT ![t] = NoResponse]
  /\ UNCHANGED <<disk, lock, clock, issued, items, rec, history>>

\* A request arrives at a thread that has sent its last response.
Invoke(t, c) ==
  /\ pc[t] \in {"idle", "done"}
  /\ ncalls < MaxCalls
  /\ c.op = "create" => Cardinality(issued) + Cardinality(Drawing) < NumIds
  /\ ncalls' = ncalls + 1
  /\ call' = [call EXCEPT ![t] = c]
  /\ pc' = [pc EXCEPT ![t] = IF c.op = "get" THEN "scan" ELSE "lock"]
  /\ result' = [result EXCEPT ![t] = NoResponse]
  /\ lin' = [lin EXCEPT ![t] = NoResponse]
  /\ UNCHANGED <<disk, lock, clock, issued, items, rec, history>>

\* get_template: the scan of MOCK_TEMPLATES, before any lock; a seed with
\* the id is returned at once.
ScanSeeds(t) ==
  /\ pc[t] = "scan"
  /\ IF SeedIndex(call[t].id) # 0
     THEN /\ Finish(t, Response(Ok, <<MOCK_TEMPLATES[SeedIndex(call[t].id)]>>, ""))
          /\ lin' = [lin EXCEPT ![t] = Serial(abs, call[t], "", 0).response]
     ELSE /\ pc' = [pc EXCEPT ![t] = "lock"]
          /\ UNCHANGED <<result, items, rec, lin>>
  /\ UNCHANGED <<disk, lock, clock, issued, ncalls, call, history>>

\* A with block that does not wait for the lock.
AcquireNoWait(t) ==
  /\ pc[t] = "lock"
  /\ lock' = t
  /\ pc' = [pc EXCEPT ![t] = "load"]
  /\ UNCHANGED <<disk, clock, issued, ncalls, call, items, rec, result, lin, history>>

\* with _lock: entered only when the lock is free.
Acquire(t) ==
  /\ pc[t] = "lock"
  /\ lock = NoThread
  /\ lock' = t
  /\ pc' = [pc EXCEPT ![t] = "load"]
  /\ UNCHANGED <<disk, clock, issued, ncalls, call, items, rec, result, lin, history>>

\* list_templates: saved = load_store() under the lock, then the lock is left.
ListLoad(t) ==
  /\ pc[t] = "load" /\ call[t].op = "list" /\ Readable(file)
  /\ items' = [items EXCEPT ![t] = load_store(file)]
  /\ lock' = NoThread
  /\ pc' = [pc EXCEPT ![t] = "sort"]
  /\ lin' = [lin EXCEPT ![t] = Serial(abs, call[t], "", 0).response]
  /\ UNCHANGED <<disk, clock, issued, ncalls, call, rec, result, history>>

\* list_templates: concatenation, filters and sort on the local list.
ListReturn(t) ==
  /\ pc[t] = "sort"
  /\ Finish(t, Response(Ok, ListResult(items[t], call[t].cat, call[t].q), ""))
  /\ UNCHANGED <<disk, lock, clock, issued, ncalls, call, lin, history>>

\* get_template: load and find_by_id under the lock, 404 if nothing found.
GetLoad(t) ==
  /\ pc[t] = "load" /\ call[t].op = "get" /\ Readable(file)
  /\ LET recs == load_store(file)
         i == find_by_id(recs, call[t].id)
     IN Finish(t, IF i = 0 THEN Response(NotFound, <<>>, "")
                  ELSE Response(Ok, <<recs[i]>>, ""))
  /\ lock' = NoThread
  /\ lin' = [lin EXCEPT ![t] = Serial(abs, call[t], "", 0).response]
  /\ UNCHANGED <<disk, clock, issued, ncalls, call, history>>

\* create_template up to save_store: load, duplicate check, new record.
CreateCheck(t) ==
  /\ pc[t] = "load" /\ call[t].op = "create" /\ Readable(file)
  /\ LET recs == load_store(file) IN
     IF HasPair(recs, call[t].payload)
     THEN /\ Finish(t, Response(Conflict, <<>>, ""))
          /\ lock' = NoThread
          /\ lin' = [lin EXCEPT ![t] = Serial(abs, call[t], "", 0).response]
          /\ UNCHANGED <<clock, issued>>
     ELSE \E tid \in uuid4 : \E ts \in now_iso :
          /\ issued' = issued \cup {tid}
          /\ clock' = ts
          /\ rec' = [rec EXCEPT ![t] = NewRecord(call[t].payload, tid, ts)]
          /\ items' = [items EXCEPT ![t] = Append(recs, NewRecord(call[t].payload, tid, ts))]
          /\ pc' = [pc EXCEPT ![t] = "open"]
          /\ UNCHANGED <<lock, result, lin>>
  /\ UNCHANGED <<disk, ncalls, call, history>>

\* An update that takes the record out of the list and appends the new one.
UpdateApplyMoveLast(t) ==
  /\ pc[t] = "load" /\ call[t].op = "update" /\ Readable(file)
  /\ LET recs == load_store(file)
         i == find_by_id(recs, call[t].id)
     IN
     IF i = 0
     THEN /\ Finish(t, Response(NotFound, <<>>, ""))
          /\ lock' = NoThread
          /\ lin' = [lin EXCEPT ![t] = Serial(abs, call[t], "", 0).response]
          /\ UNCHANGED clock
     ELSE \E ts \in now_iso :
          /\ clock' = ts
          /\ rec' = [rec EXCEPT ![t] = Overwrite(recs[i], call[t].payload, ts)]
          /\ items' = [items EXCEPT ![t] =
                         Append(Without(recs, call[t].id),
                                Overwrite(recs[i], call[t].payload, ts))]
          /\ pc' = [pc EXCEPT ![t] = "open"]
          /\ UNCHANGED <<lock, result, lin>>
  /\ UNCHANGED <<disk, issued, ncalls, call, history>>

\* update_template up to save_store: load, find_by_id, overwrite in place.
UpdateApply(t) ==
  /\ pc[t] = "load" /\ call[t].op = "update" /\ Readable(file)
  /\ LET recs == load_store(file)
         i == find_by_id(recs, call[t].id)
     IN
     IF i = 0
     THEN /\ Finish(t, Response(NotFound, <<>>, ""))
          /\ lock' = NoThread
          /\ lin' = [lin EXCEPT ![t] = Serial(abs, call[t], "", 0).response]
          /\ UNCHANGED clock
     ELSE \E ts \in now_iso :
          /\ clock' = ts
          /\ rec' = [rec EXCEPT ![t] = Overwrite(recs[i], call[t].payload, ts)]
          /\ items' = [items EXCEPT ![t] =
                         [recs EXCEPT ![i] = Overwrite(recs[i], call[t].payload, ts)]]
          /\ pc' = [pc EXCEPT ![t] = "open"]
          /\ UNCHANGED <<lock, result, lin>>
  /\ UNCHANGED <<disk, issued, ncalls, call, history>>

\* delete_template up to save_store: load, filter, 404 if nothing was removed.
DeleteFilter(t) ==
  /\ pc[t] = "load" /\ call[t].op = "delete" /\ Readable(file)
  /\ LET recs == load_store(file)
         kept == Without(recs, call[t].id)
     IN
     IF Len(kept) = Len(recs)
     THEN /\ Finish(t, Response(NotFound, <<>>, ""))
          /\ lock' = NoThread
          /\ lin' = [lin EXCEPT ![t] = Serial(abs, call[t], "", 0).response]
     ELSE /\ items' = [items EXCEPT ![t] = kept]
          /\ pc' = [pc EXCEPT ![t] = "open"]
          /\ UNCHANGED <<lock, rec, result, lin>>
  /\ UNCHANGED <<disk, clock, issued, ncalls, call, history>>

\* A save that opens the store path itself for writing.
OpenInPlace(t) ==
  /\ pc[t] = "open"
  /\ file' = Invalid
  /\ pc' = [pc EXCEPT ![t] = "dump"]
  /\ UNCHANGED <<tmp, lock, clock, issued, ncalls, call, items, rec, result, lin, history>>

\* save_store: open(tmp_path, "w") creates or truncates the temporary file.
OpenTmp(t) ==
  /\ pc[t] = "open"
  /\ tmp' = Invalid
  /\ pc' = [pc EXCEPT ![t] = "dump"]
  /\ UNCHANGED <<file, lock, clock, issued, ncalls, call, items, rec, result, lin, history>>

\* save_store: json.dump and the close of the with block complete the text.
Dump(t) ==
  /\ pc[t] = "dump"
  /\ tmp' = Array(items[t])
  /\ pc' = [pc EXCEPT ![t] = "replace"]
  /\ UNCHANGED <<file, lock, clock, issued, ncalls, call, items, rec, result, lin, history>>

\* save_store: os.replace moves the temporary file onto the store path.
Replace(t) ==
  /\ pc[t] = "replace"
  /\ tmp.kind # "absent"
  /\ file' = tmp
  /\ tmp' = Absent
  /\ pc' = [pc EXCEPT ![t] = "return"]
  /\ LET s == Serial(abs, call[t], rec[t].id, rec[t].updated_at) IN
       /\ abs' = s.store
       /\ lin' = [lin EXCEPT ![t] = s.response]
  /\ born' = IF call[t].op = "create" THEN born \cup {rec[t]} ELSE born
  /\ touched' = IF call[t].op \in {"update", "delete"}
                THEN touched \cup {call[t].id} ELSE touched
  /\ gone' = IF call[t].op = "delete" THEN gone \cup {call[t].id} ELSE gone
  /\ UNCHANGED <<lock, clock, issued, ncalls, call, items, rec, result>>

\* load_store raises: the exception leaves the with block of the handler,
\* the lock is released and the framework answers 500.
LoadFail(t) ==
  /\ pc[t] = "load" /\ ~Readable(file)
  /\ Finish(t, Response(StorageError, <<>>, ""))
  /\ lock' = NoThread
  /\ lin' = [lin EXCEPT ![t] = Response(StorageError, <<>>, "")]
  /\ UNCHANGED <<disk, clock, issued, ncalls, call, history>>

\* A failed save that still moves what it wrote onto the store path.
SaveFailRenames(t) ==
  /\ pc[t] \in {"open", "dump", "replace"}
  /\ Finish(t, Response(StorageError, <<>>, ""))
  /\ lock' = NoThread
  /\ lin' = [lin EXCEPT ![t] = Response(StorageError, <<>>, "")]
  /\ file' = IF tmp.kind = "absent" THEN file ELSE tmp
  /\ tmp' = Absent
  /\ UNCHANGED <<clock, issued, ncalls, call, history>>

\* A failed save whose exception does not release the lock.
SaveFailKeepsLock(t) ==
  /\ pc[t] \in {"open", "dump", "replace"}
  /\ Finish(t, Response(StorageError, <<>>, ""))
  /\ lin' = [lin EXCEPT ![t] = Response(StorageError, <<>>, "")]
  /\ UNCHANGED <<disk, lock, clock, issued, ncalls, call, history>>

\* save_store raises (open, write or replace fails): the exception leaves the
\* with block, the lock is released and the framework answers 500. What was
\* written to the temporary file stays there.
SaveFail(t) ==
  /\ pc[t] \in {"open", "dump", "replace"}
  /\ Finish(t, Response(StorageError, <<>>, ""))
  /\ lock' = NoThread
  /\ lin' = [lin EXCEPT ![t] = Response(StorageError, <<>>, "")]
  /\ UNCHANGED <<disk, clock, issued, ncalls, call, history>>

\* The with block is left and the handler returns its value.
Return(t) ==
  /\ pc[t] = "return"
  /\ Finish(t, IF call[t].op = "delete" THEN Response(Ok, <<>>, call[t].id)
               ELSE Response(Ok, <<rec[t]>>, ""))
  /\ lock' = NoThread
  /\ UNCHANGED <<disk, clock, issued, ncalls, call, lin, history>>

\* The process dies and is started again: threads and lock are new, the
\* two files are what they were.
Crash ==
  /\ \E t \in Threads : pc[t] # "idle"
  /\ pc' = [t \in Threads |-> "idle"]
  /\ call' = [t \in Threads |-> NoCall]
  /\ items' = [t \in Threads |-> <<>>]
  /\ rec' = [t \in Threads |-> NoRec]
  /\ result' = [t \in Threads |-> NoResponse]
  /\ lin' = [t \in Threads |-> NoResponse]
  /\ lock' = NoThread
  /\ UNCHANGED <<disk, clock, issued, ncalls, history>>

Next ==
  \/ \E t \in Threads : \E c \in Calls : Invoke(t, c)
  \/ \E t \in Threads : ScanSeeds(t)
  \/ \E t \in Threads : Acquire(t)
  \/ \E t \in Threads : ListLoad(t)
  \/ \E t \in Threads : ListReturn(t)
  \/ \E t \in Threads : GetLoad(t)
  \/ \E t \in Threads : CreateCheck(t)
  \/ \E t \in Threads : UpdateApply(t)
  \/ \E t \in Threads : DeleteFilter(t)
  \/ \E t \in Threads : OpenTmp(t)
  \/ \E t \in Threads : Dump(t)
  \/ \E t \in Threads : Replace(t)
  \/ \E t \in Threads : SaveFail(t)
  \/ \E t \in Threads : Return(t)
  \/ Crash

Spec == Init /\ [][Next]_vars

\* Two Create calls issued together on an empty store, nothing else running
\* and no storage failure: both requests have arrived, neither has the lock.
InitCreate ==
  /\ file \in {f \in InitialFiles : load_store(f) = <<>>}
  /\ tmp = Absent
  /\ lock = NoThread
  /\ clock = ClockStart
  /\ issued = {}
  /\ ncalls = Cardinality(Threads)
  /\ pc = [t \in Threads |-> "lock"]
  /\ call \in [Threads -> CreateCalls]
  /\ items = [t \in Threads |-> <<>>]
  /\ rec = [t \in Threads |-> NoRec]
  /\ result = [t \in Threads |-> NoResponse]
  /\ abs = <<>>
  /\ lin = [t \in Threads |-> NoResponse]
  /\ born = {}
  /\ touched = {}
  /\ gone = {}

NextCreate ==
  \/ \E t \in Threads : Acquire(t)
  \/ \E t \in Threads : CreateCheck(t)
  \/ \E t \in Threads : OpenTmp(t)
  \/ \E t \in Threads : Dump(t)
  \/ \E t \in Threads : Replace(t)
  \/ \E t \in Threads : Return(t)

SpecCreate == InitCreate /\ [][NextCreate]_vars

\* One step of the handler thread t runs, whichever it is.
Step(t) ==
  \/ ScanSeeds(t)
  \/ Acquire(t)
  \/ ListLoad(t)
  \/ ListReturn(t)
  \/ GetLoad(t)
  \/ CreateCheck(t)
  \/ UpdateApply(t)
  \/ DeleteFilter(t)
  \/ OpenTmp(t)
  \/ Dump(t)
  \/ Replace(t)
  \/ SaveFail(t)
  \/ Return(t)

\* The requests of the fair runs: one of each handler, chosen so that with
\* EarlierRecord saved every exit of every handler is taken (found and not
\* found, duplicate and new pair, seed and saved id).
LiveCalls ==
  {c \in Calls :
     \/ c.op = "list" /\ c.q = <<>>
     \/ c.op = "get" /\ c.id \in {Uuid(1), "tpl-001"}
     \/ c.op = "create" /\ c.payload.content = "c1"
     \/ c.op = "update" /\ c.id = Uuid(1) /\ c.payload.content = "c2"
     \/ c.op = "delete" /\ c.id = Uuid(1)}

\* The fair runs start on no file or on the array an earlier run saved.
InitLive == Init /\ file \in {Absent, Array(<<EarlierRecord>>)}

NextLive ==
  \/ \E t \in Threads : \E c \in LiveCalls : Invoke(t, c)
  \/ \E t \in Threads : Step(t)
  \/ Crash

\* The scheduler runs every thread that can take a step, and a thread that
\* waits for the lock gets it if the lock is free again and again. Requests
\* need not arrive and the process need not die.
Fairness == \A t \in Threads : WF_vars(Step(t)) /\ SF_vars(Acquire(t))

SpecLive == InitLive /\ [][NextLive]_vars /\ Fairness

\* Collections the server can have saved: up to two records in the order of
\* their creation, each with a payload of Payloads and an updated_at that is
\* its created_at or a later reading of the clock.
SavedRecords(i) ==
  {[NewRecord(p, Uuid(i), ClockStart) EXCEPT !.updated_at = ts] :
     p \in Payloads, ts \in ClockStart..ClockEnd}

StoredLists ==
  {<<>>} \cup {<<r>> : r \in SavedRecords(1)}
         \cup {<<r, s>> : r \in SavedRecords(1), s \in SavedRecords(2)}

\* Query parameters of List, each absent (None), empty or set; the names
\* that contain "re" in some case are those of the first seed only, and no
\* name contains "z".
ListQueries ==
  {[NoCall EXCEPT !.op = "list", !.cat = c, !.q = q] :
     c \in {None, "", "x", "Sales"},
     q \in {<<>>, <<"A">>, <<"R", "E">>, <<"z">>}}

\* One List call on one saved collection: thread 1 has the request, the
\* other thread has none.
InitList ==
  /\ file \in {Array(recs) : recs \in StoredLists}
  /\ tmp = Absent
  /\ lock = NoThread
  /\ clock = ClockEnd
  /\ issued = {load_store(file)[i].id : i \in 1..Len(load_store(file))}
  /\ ncalls = MaxCalls
  /\ pc = [t \in Threads |-> IF t = 1 THEN "lock" ELSE "idle"]
  /\ call \in {[t \in Threads |-> IF t = 1 THEN c ELSE NoCall] : c \in ListQueries}
  /\ items = [t \in Threads |-> <<>>]
  /\ rec = [t \in Threads |-> NoRec]
  /\ result = [t \in Threads |-> NoResponse]
  /\ abs = load_store(file)
  /\ lin = [t \in Threads |-> NoResponse]
  /\ born = {}
  /\ touched = {}
  /\ gone = {}

NextList ==
  \/ \E t \in Threads : Acquire(t)
  \/ \E t \in Threads : ListLoad(t)
  \/ \E t \in Threads : ListReturn(t)

SpecList == InitList /\ [][NextList]_vars

\* A request body with the name and the category of the first seed.
SeedPayload ==
  [name |-> MOCK_TEMPLATES[1].name, category |-> MOCK_TEMPLATES[1].category,
   content |-> "c4"]

\* The requests that can change which pairs are saved: the Creates, one of
\* them with a seed's pair, and the Updates and Deletes of saved ids.
PairCalls ==
  CreateCalls \cup {[NoCall EXCEPT !.op = "create", !.payload = SeedPayload]}
              \cup {c \in UpdateCalls \cup DeleteCalls : c.id \in Uuids}

NextPairs ==
  \/ \E t \in Threads : \E c \in PairCalls : Invoke(t, c)
  \/ \E t \in Threads : Acquire(t)
  \/ \E t \in Threads : CreateCheck(t)
  \/ \E t \in Threads : UpdateApply(t)
  \/ \E t \in Threads : DeleteFilter(t)
  \/ \E t \in Threads : OpenTmp(t)
  \/ \E t \in Threads : Dump(t)
  \/ \E t \in Threads : Replace(t)
  \/ \E t \in Threads : SaveFail(t)
  \/ \E t \in Threads : Return(t)

SpecPairs == Init /\ [][NextPairs]_vars

\* Two records an earlier run saved, with different pairs.
SecondRecord == NewRecord([name |-> <<"A">>, category |-> "x", content |-> "c2"],
                          Uuid(2), ClockStart)

\* Creates, and Updates and Deletes of the two saved records.
MutationCalls ==
  CreateCalls \cup {[NoCall EXCEPT !.op = "create", !.payload = SeedPayload]}
              \cup {c \in UpdateCalls \cup DeleteCalls : c.id \in {Uuid(1), Uuid(2)}}

\* The calls of the two threads are on different records: two Creates have
\* different pairs, an Update or Delete and another have different ids.
DifferentRecords(c, d) ==
  IF c.op = "create" /\ d.op = "create"
  THEN <<c.payload.name, c.payload.category>> # <<d.payload.name, d.payload.category>>
  ELSE c.op = "create" \/ d.op = "create" \/ c.id # d.id

\* Two mutating calls on different records issued together on a store of
\* two records: both requests have arrived, neither has the lock.
InitRace ==
  /\ file = Array(<<EarlierRecord, SecondRecord>>)
  /\ tmp = Absent
  /\ lock = NoThread
  /\ clock = ClockStart
  /\ issued = {Uuid(1), Uuid(2)}
  /\ ncalls = Cardinality(Threads)
  /\ pc = [t \in Threads |-> "lock"]
  /\ call \in {f \in [Threads -> MutationCalls] : DifferentRecords(f[1], f[2])}
  /\ items = [t \in Threads |-> <<>>]
  /\ rec = [t \in Threads |-> NoRec]
  /\ result = [t \in Threads |-> NoResponse]
  /\ abs = <<EarlierRecord, SecondRecord>>
  /\ lin = [t \in Threads |-> NoResponse]
  /\ born = {}
  /\ touched = {}
  /\ gone = {}

NextRace ==
  \/ \E t \in Threads : Acquire(t)
  \/ \E t \in Threads : CreateCheck(t)
  \/ \E t \in Threads : UpdateApply(t)
  \/ \E t \in Threads : DeleteFilter(t)
  \/ \E t \in Threads : OpenTmp(t)
  \/ \E t \in Threads : Dump(t)
  \/ \E t \in Threads : Replace(t)
  \/ \E t \in Threads : SaveFail(t)
  \/ \E t \in Threads : Return(t)

SpecRace == InitRace /\ [][NextRace]_vars

\* The server started on a store path that holds no array: the file is
\* missing or something other than the server damaged or replaced it.
CorruptFiles == {Absent, Invalid, NonArray, Undecodable}

InitCorrupt ==
  /\ file \in CorruptFiles
  /\ tmp = Absent
  /\ lock = NoThread
  /\ clock = ClockStart
  /\ issued = {}
  /\ ncalls = 0
  /\ pc = [t \in Threads |-> "idle"]
  /\ call = [t \in Threads |-> NoCall]
  /\ items = [t \in Threads |-> <<>>]
  /\ rec = [t \in Threads |-> NoRec]
  /\ result = [t \in Threads |-> NoResponse]
  /\ abs = <<>>
  /\ lin = [t \in Threads |-> NoResponse]
  /\ born = {}
  /\ touched = {}
  /\ gone = {}

NextCorrupt ==
  \/ Next
  \/ \E t \in Threads : LoadFail(t)

SpecCorrupt == InitCorrupt /\ [][NextCorrupt]_vars

\* ---------------------------------------------------------------- claims
\* How many records of recs carry the pair (name, category).
PairCount(recs, name, category) ==
  Cardinality({i \in 1..Len(recs) : recs[i].name = name /\ recs[i].category = category})

IdsOf(recs) == {recs[i].id : i \in 1..Len(recs)}
RecordsOf(recs) == {recs[i] : i \in 1..Len(recs)}

\* Thread t's handler ends in this step.
Completes(t) == pc[t] # "done" /\ pc'[t] = "done"

C2_Linearizable ==
  /\ load_store(file) = abs
  /\ \A t \in Threads : pc[t] = "done" => result[t] = lin[t]

C2_Witness ==
  \E t1 \in Threads : \E t2 \in Threads \ {t1} :
     /\ pc[t1] = "return" /\ call[t1].op = "update"
     /\ pc[t2] = "lock" /\ call[t2].op = "delete" /\ call[t2].id = call[t1].id

\* C3: no two records of the saved collection have the same name and the
\* same category.
C3_NoDuplicatePairs ==
  \A i \in 1..Len(load_store(file)) :
     PairCount(load_store(file), load_store(file)[i].name,
               load_store(file)[i].category) = 1

\* C4: the saved records have pairwise distinct ids, and the id a Create
\* draws is in no record saved now or ever before, deleted ones included.
C4_FreshIds ==
  /\ \A i \in 1..Len(load_store(file)) : \A j \in 1..Len(load_store(file)) :
        load_store(file)[i].id = load_store(file)[j].id => i = j
  /\ \A r1 \in born : \A r2 \in born : r1.id = r2.id => r1 = r2
  /\ \A t \in Threads :
        (call[t].op = "create" /\ pc[t] \in {"open", "dump", "replace"})
        => /\ rec[t].id \notin IdsOf(load_store(file))
           /\ rec[t].id \notin {r.id : r \in born}

C4_Witness ==
  /\ gone # {}
  /\ \E t \in Threads :
        /\ pc[t] = "done" /\ call[t].op = "create" /\ result[t].status = Ok
        /\ result[t].body[1].id \notin gone
        /\ result[t].body[1].id \in IdsOf(load_store(file))

\* C5: the file at the store path goes from absent or a complete array only
\* to a complete array, whatever step of save fails and wherever the process
\* dies; it never holds a cut-off text.
C5_AtomicReplace ==
  [][ /\ file.kind \in {"absent", "array"} => file'.kind \in {"absent", "array"}
      /\ file' # file => file'.kind = "array" ]_vars

C5_Witness ==
  /\ \A t \in Threads : pc[t] = "idle"
  /\ ncalls > 0
  /\ tmp.kind = "invalid"
  /\ file = Array(<<EarlierRecord>>)

\* C6: a save that fails or is cut by a crash before the rename leaves what
\* load reads as it was and the call answers 500, never 200; a rename leaves
\* what load reads equal to the full new list; only a call past the rename
\* answers 200 to a Create, Update or Delete.
C6_SaveAllOrNothing ==
  [][ \A t \in Threads :
        /\ pc[t] \in {"open", "dump", "replace"} =>
              IF pc'[t] = "return"
              THEN load_store(file') = items[t]
              ELSE /\ load_store(file') = load_store(file)
                   /\ pc'[t] = "done" => result'[t].status = StorageError
        /\ ( /\ Completes(t)
             /\ call[t].op \in {"create", "update", "delete"}
             /\ result'[t].status = Ok ) => pc[t] = "return" ]_vars

C6_Witness ==
  \E t \in Threads :
     /\ pc[t] = "done" /\ call[t].op = "delete"
     /\ result[t].status = StorageError
     /\ tmp = Array(<<>>)
     /\ file = Array(<<EarlierRecord>>)

\* C7: a Create whose (name, category) is the pair of a saved record answers
\* 409 and leaves the file as it was.
C7_ConflictKeepsStore ==
  [][ \A t \in Threads :
        ( /\ pc[t] = "load" /\ call[t].op = "create"
          /\ pc'[t] \notin {"load", "idle"}
          /\ PairCount(load_store(file), call[t].payload.name,
                        call[t].payload.category) > 0 )
        => /\ pc'[t] = "done"
           /\ result'[t].status = Conflict
           /\ file' = file ]_vars

C7_Witness ==
  \E t \in Threads :
     /\ pc[t] = "done" /\ call[t].op = "create"
     /\ result[t].status = Conflict
     /\ Len(load_store(file)) = 2

\* C8: a Create that succeeds returns a record with the name, category and
\* content it was given and equal timestamps, and a Get of that id, with no
\* Update or Delete of it in between, returns that same record.
C8_CreateThenGet ==
  [][ \A t \in Threads :
        /\ ( /\ Completes(t) /\ call[t].op = "create"
             /\ result'[t].status = Ok )
           => /\ Len(result'[t].body) = 1
              /\ result'[t].body[1].name = call[t].payload.name
              /\ result'[t].body[1].category = call[t].payload.category
              /\ result'[t].body[1].content = call[t].payload.content
              /\ result'[t].body[1].created_at = result'[t].body[1].updated_at
              /\ result'[t].body[1] \in born
        /\ ( Completes(t) /\ call[t].op = "get" )
           => \A b \in born :
                 (b.id = call[t].id /\ b.id \notin touched)
                 => result'[t] = Response(Ok, <<b>>, "") ]_vars

C8_Witness ==
  \E t \in Threads :
     /\ pc[t] = "done" /\ call[t].op = "get" /\ result[t].status = Ok
     /\ result[t].body[1] \in born \ {EarlierRecord}
     /\ result[t].body[1].id \notin touched

\* C9: the rename of a Delete shortens the saved collection by exactly one
\* record, keeps every record with another id, and a Get of the deleted id
\* answers 404 from then on.
C9_DeleteRemovesOne ==
  [][ \A t \in Threads :
        /\ ( pc[t] = "replace" /\ pc'[t] = "return" /\ call[t].op = "delete" )
           => /\ Len(load_store(file')) = Len(load_store(file)) - 1
              /\ call[t].id \notin IdsOf(load_store(file'))
              /\ RecordsOf(load_store(file')) =
                    {r \in RecordsOf(load_store(file)) : r.id # call[t].id}
        /\ ( Completes(t) /\ call[t].op = "get" /\ call[t].id \in gone )
           => result'[t].status = NotFound ]_vars

C9_Witness ==
  \E t \in Threads :
     /\ pc[t] = "done" /\ call[t].op = "get" /\ call[t].id \in gone
     /\ result[t].status = NotFound

\* C10: the rename of an Update leaves the record's created_at as it was and
\* its updated_at not earlier than it was, also when the record was updated
\* before.
C10_UpdateTimestamps ==
  [][ \A t \in Threads :
        ( pc[t] = "replace" /\ pc'[t] = "return" /\ call[t].op = "update" )
        => /\ call[t].id \in IdsOf(load_store(file'))
           /\ \A old \in RecordsOf(load_store(file)) :
              \A new \in RecordsOf(load_store(file')) :
                 (old.id = call[t].id /\ new.id = call[t].id)
                 => /\ new.updated_at >= old.updated_at
                    /\ new.created_at = old.created_at ]_vars

C10_Witness ==
  /\ pc[1] = "done" /\ pc[2] = "done"
  /\ call[1].op = "update" /\ call[2].op = "update"
  /\ call[1].id = call[2].id
  /\ result[1].status = Ok /\ result[2].status = Ok
  /\ result[2].body[1].updated_at > result[1].body[1].updated_at
  /\ result[2].body[1].created_at = result[1].body[1].created_at

\* C11: in every state every record of the saved collection has a created_at
\* that is not later than its updated_at.
C11_CreatedNotAfterUpdated ==
  \A r \in RecordsOf(load_store(file)) : r.created_at <= r.updated_at

\* A saved record that an Update stamped with a later reading of the clock,
\* next to one that still carries the two equal timestamps of its Create.
C11_Witness ==
  /\ \E r \in RecordsOf(load_store(file)) : r.id \in touched /\ r.created_at < r.updated_at
  /\ \E r \in RecordsOf(load_store(file)) : r \in born /\ r.created_at = r.updated_at

\* The store path holds no array: nothing, or content load_store cannot use.
Corrupt(f) == f.kind # "array"

\* C12: on a store path that holds no array (file missing, content that is
\* not valid JSON, or JSON that is not an array) the load of a List gives the
\* empty collection and the List answers 200 with exactly the seeds, the load
\* of a Get (of a non-seed id) answers NotFound, the load of a Create goes on
\* to the save with exactly the one new record, and the rename of that save
\* leaves an array holding exactly that record.
C12_CorruptionTolerated ==
  [][ \A t \in Threads :
        /\ ( Corrupt(file) /\ pc[t] = "load" /\ pc'[t] \notin {"load", "idle"} )
           => CASE call[t].op = "list" -> pc'[t] = "sort" /\ items'[t] = <<>>
                [] call[t].op = "get" -> pc'[t] = "done" /\ result'[t].status = NotFound
                [] call[t].op = "create" ->
                     /\ pc'[t] = "open"
                     /\ items'[t] = <<rec'[t]>>
                     /\ rec'[t].name = call[t].payload.name
                [] OTHER -> TRUE
        /\ ( Completes(t) /\ call[t].op = "list" /\ pc[t] = "sort" /\ items[t] = <<>> )
           => /\ result'[t].status = Ok
              /\ RecordsOf(result'[t].body) \subseteq RecordsOf(MOCK_TEMPLATES)
              /\ (call[t].q = <<>> /\ call[t].cat # "Sales")
                 => /\ Len(result'[t].body) = Len(MOCK_TEMPLATES)
                    /\ RecordsOf(result'[t].body) = RecordsOf(MOCK_TEMPLATES)
        /\ ( Corrupt(file) /\ pc[t] = "replace" /\ pc'[t] = "return" /\ call[t].op = "create" )
           => /\ file'.kind = "array"
              /\ file'.items = <<rec[t]>> ]_vars

SeedIds == IdsOf(MOCK_TEMPLATES)

\* C13: an Update or Delete whose id no saved record has (a seed id or an id
\* never saved) ends at its load with NotFound, the lock free and both files
\* as they were; every Get of a seed id answers 200 with that seed as it is
\* in MOCK_TEMPLATES, and every List without filters contains every seed.
C13_UnknownIdRejected ==
  [][ \A t \in Threads :
        /\ ( /\ pc[t] = "load" /\ pc'[t] \notin {"load", "idle"}
             /\ call[t].op \in {"update", "delete"}
             /\ call[t].id \notin IdsOf(load_store(file)) )
           => /\ pc'[t] = "done"
              /\ result'[t] = Response(NotFound, <<>>, "")
              /\ lock' = NoThread
              /\ file' = file /\ tmp' = tmp
        /\ ( Completes(t) /\ call[t].op = "get" /\ call[t].id \in SeedIds )
           => /\ result'[t].status = Ok
              /\ Len(result'[t].body) = 1
              /\ result'[t].body[1] \in RecordsOf(MOCK_TEMPLATES)
              /\ result'[t].body[1].id = call[t].id
        /\ ( Completes(t) /\ call[t].op = "list" /\ call[t].q = <<>> /\ call[t].cat # "Sales" )
           => RecordsOf(MOCK_TEMPLATES) \subseteq RecordsOf(result'[t].body) ]_vars

\* A Delete of a seed id was refused while a record is saved, and a Get of
\* the same seed id was answered with the seed.
C13_Witness ==
  /\ pc[1] = "done" /\ call[1].op = "delete" /\ call[1].id \in SeedIds
  /\ result[1].status = NotFound
  /\ pc[2] = "done" /\ call[2].op = "get" /\ call[2].id = call[1].id
  /\ result[2].status = Ok
  /\ load_store(file) # <<>>

\* Program points inside a with _lock block.
CriticalPcs == {"load", "open", "dump", "replace", "return"}

\* C14: under fair scheduling a call that has started always comes to its
\* end (it returns a result or an error; "idle" again only if the process
\* died), and whenever the lock is held its holder is inside its with block:
\* a call that ended, in whatever way, does not hold it.
C14_ReturnsAndFreesLock ==
  /\ \A t \in Threads : (pc[t] \notin {"idle", "done"}) ~> (pc[t] \in {"idle", "done"})
  /\ [](lock # NoThread => pc[lock] \in CriticalPcs)

\* Thread 1's call ended in an error after it held the lock (Conflict,
\* NotFound or a failed save) and thread 2 is inside its with block.
C14_Witness ==
  /\ pc[1] = "done" /\ result[1].status \in {Conflict, NotFound, StorageError}
  /\ call[1].op \in {"create", "update", "delete"}
  /\ lock = 2 /\ pc[2] \in CriticalPcs

\* C15: a thread that is between entering its with block and leaving it
\* (about to load, or between its load and the end of its save) holds the
\* lock, so at most one thread is there; this includes the load of a List
\* and of a Get.
C15_OneInCriticalSection ==
  /\ \A t \in Threads : pc[t] \in CriticalPcs => lock = t
  /\ Cardinality({t \in Threads : pc[t] \in CriticalPcs}) <= 1

\* Thread 1 is between its load and its rename while thread 2, a List or a
\* Get, waits for the lock.
C15_Witness ==
  /\ pc[1] \in {"open", "dump", "replace"} /\ lock = 1
  /\ pc[2] = "lock" /\ call[2].op \in {"list", "get"}

\* name contains q when the case of the letters is ignored.
CiContains(q, name) ==
  \E k \in 0..(Len(name) - Len(q)) :
     \A i \in 1..Len(q) : LowerChar(name[k + i]) = LowerChar(q[i])

\* out is the records of all at the positions in keep, every one once, by
\* updated_at descending and, for equal updated_at, in the order of all.
Listing(out, all, keep) ==
  /\ Len(out) = Cardinality(keep)
  /\ \A i \in keep : \E j \in 1..Len(out) : out[j] = all[i]
  /\ \A j, k \in 1..Len(out) :
       j < k => \E a, b \in keep :
                  /\ out[j] = all[a] /\ out[k] = all[b]
                  /\ \/ all[a].updated_at > all[b].updated_at
                     \/ all[a].updated_at = all[b].updated_at /\ a < b

\* C16 as stated: every List answers 200 with the records of seeds followed
\* by the loaded collection whose category equals the category parameter
\* when one is given (None is the absent one) and whose name contains q in
\* any case, newest updated_at first and equal ones in their order.
C16_ListFiltersAndSorts ==
  [][ \A t \in Threads :
        ( Completes(t) /\ call[t].op = "list" /\ pc[t] = "sort" )
        => LET all == MOCK_TEMPLATES \o items[t]
               keep == {i \in 1..Len(all) :
                          /\ call[t].cat # None => all[i].category = call[t].cat
                          /\ CiContains(call[t].q, all[i].name)}
           IN /\ result'[t].status = Ok
              /\ Listing(result'[t].body, all, keep) ]_vars

\* C16 amended: the category filter applies when the parameter is given and
\* is not the empty string; an empty category selects every record, like an
\* absent one.
C16_ListFiltersNonEmpty ==
  [][ \A t \in Threads :
        ( Completes(t) /\ call[t].op = "list" /\ pc[t] = "sort" )
        => LET all == MOCK_TEMPLATES \o items[t]
               keep == {i \in 1..Len(all) :
                          /\ call[t].cat \notin {None, ""} => all[i].category = call[t].cat
                          /\ CiContains(call[t].q, all[i].name)}
           IN /\ result'[t].status = Ok
              /\ Listing(result'[t].body, all, keep) ]_vars

\* A List with both filters set returned two saved records of equal
\* updated_at whose names differ in case, in file order.
C16_Witness ==
  /\ pc[1] = "done" /\ call[1].op = "list"
  /\ call[1].cat = "x" /\ call[1].q = <<"A">>
  /\ Len(result[1].body) = 2
  /\ result[1].body[1].updated_at = result[1].body[2].updated_at
  /\ result[1].body[1].name # result[1].body[2].name
  /\ result[1].body = load_store(file)

\* C17: a Create ends at its duplicate check with Conflict exactly when
\* some record of the collection it loaded has its name and its category;
\* otherwise it goes on to save a new record. The seeds play no part, so a
\* seed's pair is accepted, and a pair is accepted again once no saved
\* record holds it.
C17_ConflictIffPairSaved ==
  [][ \A t \in Threads :
        ( pc[t] = "load" /\ call[t].op = "create" /\ pc'[t] \notin {"load", "idle"} )
        => LET held == PairCount(load_store(file), call[t].payload.name,
                                 call[t].payload.category) > 0
           IN /\ held <=> (pc'[t] = "done" /\ result'[t].status = Conflict)
              /\ ~held <=> (pc'[t] = "open" /\ rec'[t].name = call[t].payload.name
                                            /\ rec'[t].category = call[t].payload.category) ]_vars

\* A Create with the name and category of the first seed was answered 200
\* and its record is saved after the earlier one.
C17_Witness ==
  \E t \in Threads :
     /\ pc[t] = "done" /\ call[t].op = "create" /\ result[t].status = Ok
     /\ call[t].payload.name = MOCK_TEMPLATES[1].name
     /\ call[t].payload.category = MOCK_TEMPLATES[1].category
     /\ Len(load_store(file)) = 2
     /\ load_store(file)[2] = result[t].body[1]

\* C18: the rename of an Update leaves the number of records, every record
\* at another position, and the id and created_at of the record at the
\* position of the id as they were, and writes the payload's name, category
\* and content there; the record the Update then returns is the saved one.
C18_UpdateFrame ==
  [][ \A t \in Threads :
        /\ ( pc[t] = "replace" /\ pc'[t] = "return" /\ call[t].op = "update" )
           => LET old == load_store(file)
                  new == load_store(file')
                  p == call[t].payload
              IN /\ Len(new) = Len(old)
                 /\ \E i \in 1..Len(old) :
                      /\ old[i].id = call[t].id
                      /\ [new[i] EXCEPT !.updated_at = 0]
                           = [old[i] EXCEPT !.name = p.name, !.category = p.category,
                                            !.content = p.content, !.updated_at = 0]
                      /\ \A j \in 1..Len(old) : j # i => new[j] = old[j]
        /\ ( Completes(t) /\ pc[t] = "return" /\ call[t].op = "update" )
           => /\ result'[t].status = Ok
              /\ Len(result'[t].body) = 1
              /\ result'[t].body[1].id = call[t].id
              /\ result'[t].body[1] \in RecordsOf(load_store(file')) ]_vars

\* An Update of the first of two saved records has returned: the record is
\* still first with its new values, and the second one is as it was created.
C18_Witness ==
  \E t \in Threads :
     /\ pc[t] = "done" /\ call[t].op = "update" /\ result[t].status = Ok
     /\ Len(load_store(file)) = 2
     /\ load_store(file)[1] = result[t].body[1]
     /\ load_store(file)[1].content # EarlierRecord.content
     /\ load_store(file)[2] \in born

\* C19: a Get of a seed id ends at the scan of the seeds, before any lock or
\* load, with that seed; a Get of another id ends at its load, with the
\* record of the loaded collection that has the id, or with NotFound when
\* the loaded collection has none.
C19_GetSeedThenSaved ==
  [][ \A t \in Threads :
        ( Completes(t) /\ call[t].op = "get" )
        => IF call[t].id \in SeedIds
           THEN /\ pc[t] = "scan"
                /\ result'[t].status = Ok
                /\ Len(result'[t].body) = 1
                /\ result'[t].body[1] \in RecordsOf(MOCK_TEMPLATES)
                /\ result'[t].body[1].id = call[t].id
           ELSE /\ pc[t] = "load" /\ lock = t
                /\ IF call[t].id \in IdsOf(load_store(file))
                   THEN /\ result'[t].status = Ok
                        /\ Len(result'[t].body) = 1
                        /\ result'[t].body[1] \in RecordsOf(load_store(file))
                        /\ result'[t].body[1].id = call[t].id
                   ELSE result'[t] = Response(NotFound, <<>>, "") ]_vars

\* Thread 1 was answered with a seed and thread 2 with a saved record.
C19_Witness ==
  /\ pc[1] = "done" /\ call[1].op = "get" /\ call[1].id \in SeedIds
  /\ result[1].status = Ok
  /\ pc[2] = "done" /\ call[2].op = "get" /\ call[2].id \notin SeedIds
  /\ result[2].status = Ok /\ result[2].body[1] \in RecordsOf(load_store(file))

\* Calls of the given operation that were answered 200.
Succeeded(op) == {t \in Threads : pc[t] = "done" /\ call[t].op = op /\ result[t].status = Ok}

\* C20: once both of two concurrent mutating calls on different records have
\* returned, the saved collection holds the record of every Create that
\* succeeded, holds the record every successful Update returned, holds no
\* id a successful Delete removed, and has as many records as the two saved
\* before plus the successful Creates minus the successful Deletes.
C20_NoLostMutation ==
  (\A t \in Threads : pc[t] = "done")
  => LET saved == load_store(file) IN
     /\ \A t \in Succeeded("create") : result[t].body[1] \in RecordsOf(saved)
     /\ \A t \in Succeeded("update") : result[t].body[1] \in RecordsOf(saved)
     /\ \A t \in Succeeded("delete") : call[t].id \notin IdsOf(saved)
     /\ Len(saved) = 2 + Cardinality(Succeeded("create")) - Cardinality(Succeeded("delete"))
     /\ Cardinality(IdsOf(saved)) = Len(saved)

\* A Create and an Update of a saved record, issued together, have both
\* succeeded and the three records are saved.
C20_Witness ==
  /\ Succeeded("create") # {} /\ Succeeded("update") # {}
  /\ Len(load_store(file)) = 3
  /\ \A t \in Threads : result[t].body[1] \in RecordsOf(load_store(file))

====
